---- MODULE Spec2Model ----
(***************************************************************************)
(* Model of src/app/histogram.py: the frame sampler, the fingerprinting    *)
(* passes with their averaging step, the comparison engine                 *)
(* (match_histograms) and the shot boundary detector.                      *)
(*                                                                         *)
(* Numbers that are floats in the program are modelled exactly: frame      *)
(* rates and frame counts as fractions <<num, den>>, averaged bins as      *)
(* fractions <<sum, count>>, scores as integers in a fixed-point unit.     *)
(***************************************************************************)
EXTENDS Integers, Sequences, FiniteSets, TLC

VARIABLES
    pc,                    \* position of the running operation
    error,                 \* exception that ended the operation, or "none"
    opened,                \* video_capture.isOpened()
    released,              \* video_capture.release() has been called
    total_frames,          \* CAP_PROP_FRAME_COUNT, a fraction <<num, den>>
    fps,                   \* CAP_PROP_FPS, a fraction <<num, den>>
    frames_to_process,     \* result of _get_frames_to_process
    frame_counter,         \* frame_counter of the running pass
    is_under_threshold,    \* shot detector: TRUE = BELOW, FALSE = ABOVE
    y_axis,                \* shot detector: divergence of every frame pair
    events,                \* shot detector: frame indices printed as scene changes
    pass_model,            \* which generate_video_*_histogram pass runs
    histograms_gray_dict,  \* per-frame grayscale histograms of the pass
    histograms_rgb_dict,   \* per-frame histograms of the pass, per colour channel
    histograms_hsv_dict,   \* per-frame HSV histograms of the pass
    hist_file,             \* arrays written to ../histogram_data/<video>/hist-<col>
    config_model,          \* config.model
    cur_all_model,         \* argument of match_histograms
    corpus,                \* get_video_filenames("../footage/")
    hist_recording,        \* keys of the query fingerprints loaded
    m_idx,                 \* position of the metric loop in the method list
    method,                \* label of the running metric
    corpus_i,              \* corpus entries compared in the running metric
    comparisons,           \* scores computed in the running metric, in corpus order
    table_data,            \* rows of the terminal table of the running metric
    csv_files,             \* names of the result files opened for writing
    video_match,           \* running best video
    video_match_value,     \* score of the running best video
    results_array,         \* class attribute results_array: the vote list
    store_col,             \* fingerprint store: the hist-<col> file saved and loaded
    file_text,             \* fingerprint store: the lines of every hist-<col> file
    hist_loaded,           \* fingerprint store: the array np.loadtxt returned
    build_col,             \* histogram builder: which histogram is computed
    hist_cur,              \* histogram builder: the histogram emitted last
    instances,             \* vote list: the HistogramGenerator instances created
    own_results,           \* vote list: each instance's own results_array attribute, if any
    vote_runs,             \* vote list: metric runs that have cast their votes
    voter,                 \* vote list: the instance whose metric run voted last
    returned               \* vote list: what get_results_array returned last, and to whom

vars == <<pc, error, opened, released, total_frames, fps, frames_to_process,
          frame_counter, is_under_threshold, y_axis, events, pass_model,
          histograms_gray_dict, histograms_rgb_dict, histograms_hsv_dict, hist_file,
          config_model, cur_all_model, corpus, hist_recording, m_idx, method, corpus_i,
          comparisons, table_data, csv_files, video_match, video_match_value,
          results_array, store_col, file_text, hist_loaded, build_col, hist_cur,
          instances, own_results, vote_runs, voter, returned>>

matchVars == <<config_model, cur_all_model, corpus, hist_recording, m_idx, method, corpus_i,
               comparisons, table_data, csv_files, video_match, video_match_value,
               results_array>>

captureVars == <<opened, released, total_frames, fps>>
shotVars == <<is_under_threshold, y_axis, events>>
passVars == <<pass_model, histograms_gray_dict, histograms_rgb_dict,
              histograms_hsv_dict, hist_file>>

storeVars == <<store_col, file_text, hist_loaded>>
buildVars == <<build_col, hist_cur>>
votesVars == <<instances, own_results, vote_runs, voter, returned>>

colours == <<"b", "g", "r">>
HistFiles == {"gray", "b", "g", "r", "hsv"}

\* the parts of the state an operation does not use
ShotIdle ==
    /\ is_under_threshold = TRUE
    /\ y_axis = <<>>
    /\ events = <<>>

PassIdle ==
    /\ histograms_gray_dict = <<>>
    /\ histograms_rgb_dict = [c \in {"b", "g", "r"} |-> <<>>]
    /\ histograms_hsv_dict = <<>>
    /\ hist_file = [f \in HistFiles |-> <<>>]

MatchIdle ==
    /\ hist_recording = {}
    /\ m_idx = 0
    /\ method = ""
    /\ corpus_i = 0
    /\ comparisons = <<>>
    /\ table_data = <<>>
    /\ csv_files = {}
    /\ video_match = ""
    /\ video_match_value = 0
    /\ results_array = <<>>

NoMatch ==
    /\ config_model = "all"
    /\ cur_all_model = "all"
    /\ corpus = <<>>
    /\ MatchIdle

StoreIdle ==
    /\ store_col = "none"
    /\ file_text = [f \in HistFiles |-> <<>>]
    /\ hist_loaded = <<>>

BuildIdle ==
    /\ build_col = "none"
    /\ hist_cur = <<>>

VotesIdle ==
    /\ instances = {}
    /\ own_results = <<>>
    /\ vote_runs = 0
    /\ voter = 0
    /\ returned = [self |-> 0, list |-> "none"]

(***************************************************************************)
(* Bounds                                                                  *)
(***************************************************************************)
MaxTotalFrames == 6        \* largest frame count given to the sampler
MaxFpsNum == 4             \* frame rates are k/FpsDen for |k| <= MaxFpsNum
MaxPairs == 5              \* frame pairs read by the shot detector

FpsDen == 2
Fractions(lo, hi) == {<<n, d>> : n \in lo..hi, d \in 1..FpsDen}

(***************************************************************************)
(* Python arithmetic used by the sampler                                   *)
(***************************************************************************)
\* math.ceil of the fraction q
Ceil(q) == -((-q[1]) \div q[2])

\* int() of the fraction q: truncation toward zero
PyInt(q) == IF q[1] >= 0 THEN q[1] \div q[2] ELSE -((-q[1]) \div q[2])

\* the elements a for-loop over range(i, stop, step) visits, step # 0
RECURSIVE PyRange(_, _, _)
PyRange(i, stop, step) ==
    IF (step > 0 /\ i < stop) \/ (step < 0 /\ i > stop)
    THEN <<i>> \o PyRange(i + step, stop, step)
    ELSE <<>>

\* _get_frames_to_process(vc): range() raises ValueError for a zero step
get_frames_to_process_FloorStep(tf, f) ==
    IF f[1] \div f[2] = 0
    THEN [err |-> "ValueError", ids |-> <<>>]
    ELSE [err |-> "none", ids |-> PyRange(1, PyInt(tf) + 1, f[1] \div f[2])]

_get_frames_to_process(tf, f) ==
    IF Ceil(f) = 0
    THEN [err |-> "ValueError", ids |-> <<>>]
    ELSE [err |-> "none", ids |-> PyRange(1, PyInt(tf) + 1, Ceil(f))]

(***************************************************************************)
(* Frame sampler on its own: the inputs are drawn in the initial state     *)
(***************************************************************************)
InitSampler ==
    /\ pc = "sampler"
    /\ error = "none"
    /\ opened = TRUE
    /\ released = FALSE
    /\ total_frames \in Fractions(0, MaxTotalFrames)
    /\ fps \in Fractions(-MaxFpsNum, MaxFpsNum)
    /\ frames_to_process = <<>>
    /\ frame_counter = 0
    /\ ShotIdle
    /\ pass_model = "none"
    /\ PassIdle
    /\ NoMatch
    /\ StoreIdle
    /\ BuildIdle
    /\ VotesIdle

CallSampler ==
    /\ pc = "sampler"
    /\ LET r == _get_frames_to_process(total_frames, fps)
       IN /\ frames_to_process' = r.ids
          /\ error' = r.err
          /\ pc' = IF r.err = "none" THEN "sampled" ELSE "error"
    /\ UNCHANGED <<votesVars, buildVars, storeVars, captureVars, frame_counter, shotVars, passVars, matchVars>>

NextSampler == CallSampler

SpecSampler == InitSampler /\ [][NextSampler]_vars

(***************************************************************************)
(* Shot boundary detector                                                  *)
(***************************************************************************)
threshold == 10

\* divergences (mean Kullback-Leibler divergence of a frame pair) fed to the detector
Divergences == {2, 3, 10, 15, 16, 20}

\* lines 518-522: the new is_under_threshold and whether a scene change is printed
ShotDecide_NoHysteresis(d, under) ==
    [under |-> ~(d > threshold), emit |-> d > threshold]

ShotDecide_RearmAtThreshold(d, under) ==
    IF d > threshold /\ under THEN [under |-> FALSE, emit |-> TRUE]
    ELSE IF d <= threshold THEN [under |-> TRUE, emit |-> FALSE]
    ELSE [under |-> under, emit |-> FALSE]

ShotDecide(d, under) ==
    IF d > threshold /\ under THEN [under |-> FALSE, emit |-> TRUE]
    ELSE IF d < threshold THEN [under |-> TRUE, emit |-> FALSE]
    ELSE [under |-> under, emit |-> FALSE]

InitShot ==
    /\ pc = "shot_start"
    /\ error = "none"
    /\ opened \in BOOLEAN
    /\ released = FALSE
    /\ total_frames = <<0, 1>>
    /\ fps = <<0, 1>>
    /\ frames_to_process = <<>>
    /\ frame_counter = 0
    /\ ShotIdle
    /\ pass_model = "none"
    /\ PassIdle
    /\ NoMatch
    /\ StoreIdle
    /\ BuildIdle
    /\ VotesIdle

\* lines 476-480: the initial read; a failed read leaves frame = None and
\* frame[:] raises TypeError when the loop is entered
ShotFirstRead ==
    /\ pc = "shot_start"
    /\ \E ret \in BOOLEAN :
          /\ ~opened => ~ret
          /\ IF ~opened THEN pc' = "shot_plot" /\ error' = error
             ELSE IF ret THEN pc' = "shot_loop" /\ error' = error
             ELSE pc' = "error" /\ error' = "TypeError"
    /\ UNCHANGED <<votesVars, buildVars, storeVars, captureVars, frames_to_process, frame_counter, shotVars, passVars, matchVars>>

\* lines 481-522: one frame pair read and compared
ShotReadPair ==
    /\ pc = "shot_loop"
    /\ frame_counter < MaxPairs
    /\ \E d \in Divergences :
          LET r == ShotDecide(d, is_under_threshold)
          IN /\ frame_counter' = frame_counter + 1
             /\ y_axis' = Append(y_axis, d)
             /\ is_under_threshold' = r.under
             /\ events' = IF r.emit THEN Append(events, frame_counter + 1) ELSE events
    /\ UNCHANGED <<votesVars, buildVars, storeVars, pc, error, captureVars, frames_to_process, passVars, matchVars>>

\* lines 524-525: the read fails and the loop is left
ShotReadFails ==
    /\ pc = "shot_loop"
    /\ pc' = "shot_plot"
    /\ UNCHANGED <<votesVars, buildVars, storeVars, error, captureVars, frames_to_process, frame_counter, shotVars,
                   passVars, matchVars>>

\* lines 527-535 and 545-551: plot, then destroy_video_capture
ShotRelease ==
    /\ pc = "shot_plot"
    /\ opened' = FALSE
    /\ released' = TRUE
    /\ pc' = "done"
    /\ UNCHANGED <<votesVars, buildVars, storeVars, error, total_frames, fps, frames_to_process, frame_counter, shotVars,
                   passVars, matchVars>>

NextShot == ShotFirstRead \/ ShotReadPair \/ ShotReadFails \/ ShotRelease

SpecShot == InitShot /\ [][NextShot]_vars

(***************************************************************************)
(* Fingerprinting passes: generate_video_{grayscale,rgb,hsv}_histogram     *)
(***************************************************************************)
MaxFrames == 2             \* frames a video holds, and largest frame count reported
MaxPassFps == 2            \* largest frame rate of a fingerprinted video
HistSize == 3              \* bins of a flat histogram (256 in the program)
MaxBinValue == 1           \* largest bin value, in fixed-point units

\* class attribute bins (8, 12, 3 in the program)
bins == <<2, 3, 2>>

\* bin indices of a per-frame histogram: calcHist(..., [256], [0, 256])
Bins == 0..(HistSize - 1)
\* bin indices of an averaged flat histogram: np.zeros(shape=(255, 1)), range(0, 255)
AvgBins == 0..(HistSize - 2)
\* bin indices of a joint HSV histogram: calcHist(..., self.bins, ...)
HsvBins == {<<h, s, v>> : h \in 0..(bins[1] - 1), s \in 0..(bins[2] - 1), v \in 0..(bins[3] - 1)}

\* normalized histograms of a frame: all the mass in one bin
FrameHists(S) == {[i \in S |-> IF i = k THEN w ELSE 0] : k \in S, w \in 1..MaxBinValue}

\* key codes returned by cv2.waitKey(30) & 0xFF
Keys == {25, 27, 113, 255}

\* lines 246-251, 212-217, 281-286: bin_sum of bin i over the histograms
RECURSIVE BinSum(_, _)
BinSum(hists, i) ==
    IF hists = <<>> THEN 0
    ELSE hists[1][i] + BinSum(Tail(hists), i)

\* lines 240-255 (and 209-221 for one channel): the averaged flat histogram,
\* each bin the fraction <<bin_sum, len(hist)>>
AverageFlat(hists) ==
    IF Len(hists) = 0
    THEN [err |-> "ZeroDivisionError", avg |-> <<>>]
    ELSE [err |-> "none",
          avg |-> [i \in AvgBins |-> <<BinSum(hists, i), Len(hists)>>]]

\* lines 273-290: the averaged HSV histogram
AverageHsv(hists) ==
    IF Len(hists) = 0
    THEN [err |-> "ZeroDivisionError", avg |-> <<>>]
    ELSE [err |-> "none",
          avg |-> [b \in HsvBins |-> <<BinSum(hists, b), Len(hists)>>]]

\* number of frames whose histograms the pass has collected
NumHists ==
    CASE pass_model = "gray" -> Len(histograms_gray_dict)
      [] pass_model = "rgb" -> Len(histograms_rgb_dict["b"])
      [] pass_model = "hsv" -> Len(histograms_hsv_dict)
      [] OTHER -> 0

\* a capture that failed to open reports 0 for every property
InitPass ==
    /\ pc = "pass_start"
    /\ error = "none"
    /\ opened \in BOOLEAN
    /\ released = FALSE
    /\ total_frames \in {<<n, 1>> : n \in 0..MaxFrames}
    /\ fps \in {<<n, 1>> : n \in 0..MaxPassFps}
    /\ ~opened => (total_frames = <<0, 1>> /\ fps = <<0, 1>>)
    /\ frames_to_process = <<>>
    /\ frame_counter = 0
    /\ ShotIdle
    /\ pass_model \in {"gray", "rgb", "hsv"}
    /\ PassIdle
    /\ NoMatch
    /\ StoreIdle
    /\ BuildIdle
    /\ VotesIdle

\* lines 61, 111, 161: frames_to_process = _get_frames_to_process(self.video_capture)
PassSample ==
    /\ pc = "pass_start"
    /\ LET r == _get_frames_to_process(total_frames, fps)
       IN /\ frames_to_process' = r.ids
          /\ error' = r.err
          /\ pc' = IF r.err = "none" THEN "pass_loop" ELSE "error"
    /\ UNCHANGED <<votesVars, buildVars, storeVars, captureVars, frame_counter, shotVars, passVars, matchVars>>

InFramesToProcess(n) == \E k \in 1..Len(frames_to_process) : frames_to_process[k] = n

\* lines 64-98, 114-147, 164-197: a frame is read (ret = True); a sampled frame
\* adds its histograms and then polls the exit key
PassReadFrame ==
    /\ pc = "pass_loop"
    /\ opened
    /\ frame_counter < MaxFrames
    /\ frame_counter' = frame_counter + 1
    /\ IF InFramesToProcess(frame_counter + 1)
       THEN /\ CASE pass_model = "gray" ->
                      /\ \E h \in FrameHists(Bins) :
                            histograms_gray_dict' = Append(histograms_gray_dict, h)
                      /\ UNCHANGED <<histograms_rgb_dict, histograms_hsv_dict>>
                 [] pass_model = "rgb" ->
                      /\ \E hb \in FrameHists(Bins), hg \in FrameHists(Bins),
                            hr \in FrameHists(Bins) :
                            histograms_rgb_dict' =
                                [c \in {"b", "g", "r"} |->
                                    Append(histograms_rgb_dict[c],
                                           IF c = "b" THEN hb ELSE IF c = "g" THEN hg ELSE hr)]
                      /\ UNCHANGED <<histograms_gray_dict, histograms_hsv_dict>>
                 [] pass_model = "hsv" ->
                      /\ \E h \in FrameHists(HsvBins) :
                            histograms_hsv_dict' = Append(histograms_hsv_dict, h)
                      /\ UNCHANGED <<histograms_gray_dict, histograms_rgb_dict>>
            /\ \E k \in Keys :
                  pc' = IF k = 25 \/ k = 27 THEN "pass_aggregate" ELSE "pass_loop"
       ELSE /\ UNCHANGED <<histograms_gray_dict, histograms_rgb_dict, histograms_hsv_dict>>
            /\ pc' = pc
    /\ UNCHANGED <<votesVars, buildVars, storeVars, error, captureVars, frames_to_process, shotVars, pass_model, hist_file,
                   matchVars>>

\* lines 99-100, 148-149, 198-199: the read fails (ret = False) and the loop is left
PassReadFails ==
    /\ pc = "pass_loop"
    /\ pc' = "pass_aggregate"
    /\ UNCHANGED <<votesVars, buildVars, storeVars, error, captureVars, frames_to_process, frame_counter, shotVars, passVars,
                   matchVars>>

\* lines 101, 150, 200: generate_and_store_average_*_histogram
PassAggregate ==
    /\ pc = "pass_aggregate"
    /\ CASE pass_model = "gray" ->
              LET r == AverageFlat(histograms_gray_dict)
              IN /\ error' = r.err
                 /\ hist_file' = IF r.err = "none"
                                 THEN [hist_file EXCEPT !["gray"] = r.avg]
                                 ELSE hist_file
         [] pass_model = "rgb" ->
              LET rb == AverageFlat(histograms_rgb_dict["b"])
                  rg == AverageFlat(histograms_rgb_dict["g"])
                  rr == AverageFlat(histograms_rgb_dict["r"])
              IN /\ error' = rb.err
                 /\ hist_file' = IF rb.err = "none"
                                 THEN [hist_file EXCEPT !["b"] = rb.avg,
                                                        !["g"] = rg.avg,
                                                        !["r"] = rr.avg]
                                 ELSE hist_file
         [] pass_model = "hsv" ->
              LET r == AverageHsv(histograms_hsv_dict)
              IN /\ error' = r.err
                 /\ hist_file' = IF r.err = "none"
                                 THEN [hist_file EXCEPT !["hsv"] = r.avg]
                                 ELSE hist_file
    /\ pc' = IF error' = "none" THEN "pass_release" ELSE "error"
    /\ UNCHANGED <<votesVars, buildVars, storeVars, captureVars, frames_to_process, frame_counter, shotVars, pass_model,
                   histograms_gray_dict, histograms_rgb_dict, histograms_hsv_dict,
                   matchVars>>

\* lines 102, 151, 201 and 545-551: destroy_video_capture
PassRelease ==
    /\ pc = "pass_release"
    /\ opened' = FALSE
    /\ released' = TRUE
    /\ pc' = "done"
    /\ UNCHANGED <<votesVars, buildVars, storeVars, error, total_frames, fps, frames_to_process, frame_counter, shotVars,
                   passVars, matchVars>>

NextPass == PassSample \/ PassReadFrame \/ PassReadFails \/ PassAggregate \/ PassRelease

SpecPass == InitPass /\ [][NextPass]_vars

(***************************************************************************)
(* Comparison engine: match_histograms                                     *)
(***************************************************************************)
MaxVideos == 2             \* corpus videos
MaxScore == 1              \* compareHist and distance results are 0, 3, ..., 3*MaxScore

\* OpenCV's HistCompMethods
HISTCMP_CORREL == 0
HISTCMP_CHISQR == 1
HISTCMP_INTERSECT == 2
HISTCMP_BHATTACHARYYA == 3
HISTCMP_CHISQR_ALT == 4
HISTCMP_KL_DIV == 5

histcmp_methods == <<HISTCMP_CORREL, HISTCMP_CHISQR, HISTCMP_INTERSECT,
                     HISTCMP_BHATTACHARYYA, HISTCMP_CHISQR_ALT, HISTCMP_KL_DIV>>
histcmp_3d_methods == <<"wasserstein_distance", "energy_distance">>
histogram_comparison_weigths == [gray |-> 1, rgb |-> 5, hsv |-> 8]

ConfigModels == {"gray", "rgb", "hsv", "all"}
FileNames == <<"a.mp4", "b.mp4", "c.mp4", "d.mp4">>

\* results of cv2.compareHist, wasserstein_distance and energy_distance sums, in a
\* fixed-point unit of a fifth of 1e-5; multiples of 3 keep a mean of three exact
Scores == {3 * k : k \in 0..MaxScore}

\* round(comparison, 5)
Round5(x) == 5 * ((2 * x + 5) \div 10)

\* lines 318-332: the query fingerprints loaded into hist_recording
LoadedKeys(config, cur) ==
    IF config = "gray" \/ (cur = "gray" /\ config = "all") THEN {"gray"}
    ELSE IF config = "rgb" \/ (cur = "rgb" /\ config = "all") THEN {"b", "g", "r"}
    ELSE IF config = "hsv" \/ (cur = "hsv" /\ config = "all") THEN {"hsv"}
    ELSE {}

\* line 341
UsesCompareHist(config, cur) ==
    \/ config = "rgb"
    \/ config = "gray"
    \/ (cur = "gray" /\ config = "all")
    \/ (cur = "rgb" /\ config = "all")

\* line 412
UsesDistances(config, cur) ==
    ~UsesCompareHist(config, cur) /\ (config = "hsv" \/ config = "all")

\* lines 343-354
MethodLabel(m) ==
    IF m = 0 THEN "CORRELATION"
    ELSE IF m = 1 THEN "INTERSECTION"
    ELSE IF m = 2 THEN "CHI SQUARE"
    ELSE IF m = 3 THEN "BHATTACHARYYA"
    ELSE IF m = 4 THEN "ALTERNATIVE CHI-SQUARE"
    ELSE IF m = 5 THEN "KULLBACK-LEIBLER DIVERGENCE"
    ELSE ""

\* lines 414-417
MethodLabel3d(m) ==
    IF m = "wasserstein_distance" THEN "WASSERSTEIN DISTANCE (EMD)"
    ELSE IF m = "energy_distance" THEN "ENERGY DISTANCE"
    ELSE ""

\* lines 357-360 and 420-423: the result file opened for the run
CsvName(config, cur, label) ==
    IF config = "all" THEN <<config, cur, label>> ELSE <<config, label>>

\* lines 368 and 371: the color model whose fingerprints compareHist is given
ComparedModel(config, cur) ==
    IF config = "gray" \/ (cur = "gray" /\ config = "all") THEN "gray" ELSE "rgb"

\* lines 391-397: a later entry replaces the running best
Improves_ByLabel(m, comparison, best) ==
    \/ (m \in {0, 1} /\ comparison > best)
    \/ (m \in {2, 3, 4, 5} /\ comparison < best)

Improves_NotStrict(m, comparison, best) ==
    \/ (m \in {0, 2} /\ comparison >= best)
    \/ (m \in {1, 3, 4, 5} /\ comparison <= best)

Improves(m, comparison, best) ==
    \/ (m \in {0, 2} /\ comparison > best)
    \/ (m \in {1, 3, 4, 5} /\ comparison < best)

\* line 453
Improves3d(comparison, best) == comparison < best

\* lines 400-405: copies of the winner appended after a compareHist run
VoteWeight(cur) ==
    IF cur = "gray" THEN histogram_comparison_weigths["gray"]
    ELSE IF cur = "rgb" THEN histogram_comparison_weigths["rgb"]
    ELSE 0

Copies(n, x) == [k \in 1..n |-> x]

InitMatch ==
    /\ pc = "match_start"
    /\ error = "none"
    /\ opened = TRUE
    /\ released = FALSE
    /\ total_frames = <<0, 1>>
    /\ fps = <<0, 1>>
    /\ frames_to_process = <<>>
    /\ frame_counter = 0
    /\ ShotIdle
    /\ pass_model = "none"
    /\ PassIdle
    /\ config_model \in ConfigModels
    /\ cur_all_model \in ConfigModels
    /\ corpus \in {SubSeq(FileNames, 1, n) : n \in 0..MaxVideos}
    /\ MatchIdle
    /\ StoreIdle
    /\ BuildIdle
    /\ VotesIdle

\* lines 313-341 and 412: load the query fingerprints and choose the metric family
MatchLoad ==
    /\ pc = "match_start"
    /\ hist_recording' = LoadedKeys(config_model, cur_all_model)
    /\ m_idx' = 1
    /\ pc' = IF UsesCompareHist(config_model, cur_all_model) THEN "match_method"
             ELSE IF UsesDistances(config_model, cur_all_model) THEN "match_method3d"
             ELSE "done"
    /\ UNCHANGED <<votesVars, buildVars, storeVars, error, captureVars, frames_to_process, frame_counter, shotVars, passVars,
                   config_model, cur_all_model, corpus, method, corpus_i, comparisons, table_data,
                   csv_files, video_match, video_match_value, results_array>>

\* lines 342-365: a compareHist metric run starts
MatchBeginRun ==
    /\ pc = "match_method"
    /\ m_idx <= Len(histcmp_methods)
    /\ method' = MethodLabel(histcmp_methods[m_idx])
    /\ csv_files' = csv_files \cup {CsvName(config_model, cur_all_model, method')}
    /\ table_data' = <<>>
    /\ comparisons' = <<>>
    /\ corpus_i' = 0
    /\ pc' = "match_corpus"
    /\ UNCHANGED <<votesVars, buildVars, storeVars, error, captureVars, frames_to_process, frame_counter, shotVars, passVars,
                   config_model, cur_all_model, corpus, hist_recording, m_idx,
                   video_match, video_match_value, results_array>>

\* lines 366-397: one corpus video is scored and compared with the running best
MatchCompare ==
    /\ pc = "match_corpus"
    /\ corpus_i < Len(corpus)
    /\ \E comparison \in
            IF ComparedModel(config_model, cur_all_model) = "gray"
            THEN Scores
            ELSE {(cb + cg + cr) \div 3 : cb \in Scores, cg \in Scores, cr \in Scores} :
          LET file == corpus[corpus_i + 1]
              m == histcmp_methods[m_idx]
          IN /\ table_data' = Append(table_data, <<file, Round5(comparison)>>)
             /\ comparisons' = Append(comparisons, comparison)
             /\ IF corpus_i = 0 \/ Improves(m, comparison, video_match_value)
                THEN /\ video_match' = file
                     /\ video_match_value' = comparison
                ELSE UNCHANGED <<video_match, video_match_value>>
    /\ corpus_i' = corpus_i + 1
    /\ UNCHANGED <<votesVars, buildVars, storeVars, pc, error, captureVars, frames_to_process, frame_counter, shotVars,
                   passVars, config_model, cur_all_model, corpus, hist_recording, m_idx,
                   method, csv_files, results_array>>

\* lines 399-409: the votes for the winner of a compareHist run
MatchEndRun ==
    /\ pc = "match_corpus"
    /\ corpus_i = Len(corpus)
    /\ results_array' = results_array \o Copies(VoteWeight(cur_all_model), video_match)
    /\ m_idx' = m_idx + 1
    /\ pc' = "match_method"
    /\ UNCHANGED <<votesVars, buildVars, storeVars, error, captureVars, frames_to_process, frame_counter, shotVars, passVars,
                   config_model, cur_all_model, corpus, hist_recording, method, corpus_i,
                   comparisons, table_data, csv_files, video_match, video_match_value>>

\* lines 413-429: a statistical-distance metric run starts
MatchBeginRun3d ==
    /\ pc = "match_method3d"
    /\ m_idx <= Len(histcmp_3d_methods)
    /\ method' = MethodLabel3d(histcmp_3d_methods[m_idx])
    /\ csv_files' = csv_files \cup {CsvName(config_model, cur_all_model, method')}
    /\ table_data' = <<>>
    /\ comparisons' = <<>>
    /\ corpus_i' = 0
    /\ pc' = "match_corpus3d"
    /\ UNCHANGED <<votesVars, buildVars, storeVars, error, captureVars, frames_to_process, frame_counter, shotVars, passVars,
                   config_model, cur_all_model, corpus, hist_recording, m_idx,
                   video_match, video_match_value, results_array>>

\* lines 430-455: one corpus video is scored by the sum of its slice distances;
\* hist_recording['hsv'] raises KeyError when no HSV query fingerprint was loaded
MatchCompare3d ==
    /\ pc = "match_corpus3d"
    /\ corpus_i < Len(corpus)
    /\ IF "hsv" \notin hist_recording
       THEN /\ pc' = "error"
            /\ error' = "KeyError"
            /\ UNCHANGED <<corpus_i, comparisons, table_data, video_match, video_match_value>>
       ELSE /\ \E comparison \in Scores :
                  LET file == corpus[corpus_i + 1]
                  IN /\ table_data' = Append(table_data, <<file, Round5(comparison)>>)
                     /\ comparisons' = Append(comparisons, comparison)
                     /\ IF corpus_i = 0 \/ Improves3d(comparison, video_match_value)
                        THEN /\ video_match' = file
                             /\ video_match_value' = comparison
                        ELSE UNCHANGED <<video_match, video_match_value>>
            /\ corpus_i' = corpus_i + 1
            /\ UNCHANGED <<pc, error>>
    /\ UNCHANGED <<votesVars, buildVars, storeVars, captureVars, frames_to_process, frame_counter, shotVars, passVars,
                   config_model, cur_all_model, corpus, hist_recording, m_idx, method,
                   csv_files, results_array>>

\* lines 457-463: the votes for the winner of a statistical-distance run
MatchEndRun3d ==
    /\ pc = "match_corpus3d"
    /\ corpus_i = Len(corpus)
    /\ results_array' =
          results_array \o Copies(histogram_comparison_weigths["hsv"], video_match)
    /\ m_idx' = m_idx + 1
    /\ pc' = "match_method3d"
    /\ UNCHANGED <<votesVars, buildVars, storeVars, error, captureVars, frames_to_process, frame_counter, shotVars, passVars,
                   config_model, cur_all_model, corpus, hist_recording, method, corpus_i,
                   comparisons, table_data, csv_files, video_match, video_match_value>>

\* the metric loop is exhausted and match_histograms returns
MatchReturn ==
    /\ \/ pc = "match_method" /\ m_idx > Len(histcmp_methods)
       \/ pc = "match_method3d" /\ m_idx > Len(histcmp_3d_methods)
    /\ pc' = "done"
    /\ UNCHANGED <<votesVars, buildVars, storeVars, error, captureVars, frames_to_process, frame_counter, shotVars, passVars,
                   matchVars>>

NextMatch ==
    \/ MatchLoad
    \/ MatchBeginRun
    \/ MatchCompare
    \/ MatchEndRun
    \/ MatchBeginRun3d
    \/ MatchCompare3d
    \/ MatchEndRun3d
    \/ MatchReturn

SpecMatch == InitMatch /\ [][NextMatch]_vars

(***************************************************************************)
(* Fingerprint store: np.savetxt of an averaged histogram, np.loadtxt back *)
(***************************************************************************)
MaxStoreFrames == 3        \* sampled frames averaged into a stored fingerprint

\* fmt='%f' prints six decimals: a flat value is stored as a count of 1e-6
FmtScale == 1000000

\* '%f' % q for the fraction q >= 0, as a count of 1e-6 (rounded to nearest)
Fmt6(q) == (2 * q[1] * FmtScale + q[2]) \div (2 * q[2])

\* a line of a text file: a '#' comment or a row of numbers
CommentLine == [comment |-> TRUE, row |-> <<>>]
DataLine(r) == [comment |-> FALSE, row |-> r]

\* lines 225 and 259: np.savetxt(path, avg_histogram, fmt='%f'), one row of one
\* value per bin of the (255, 1) array
SaveFlat(avg) ==
    [k \in 1..Cardinality(DOMAIN avg) |-> DataLine(<<Fmt6(avg[k - 1])>>)]

\* lines 296-298: np.savetxt(file, arr_2d) of the slice of hue bin h (the default
\* format '%.18e' prints a float64 exactly), then the separator comment
SliceLines(avg, h) ==
    [s \in 1..bins[2] |-> DataLine([v \in 1..bins[3] |-> avg[<<h, s - 1, v - 1>>]])]
        \o <<CommentLine>>

RECURSIVE SlicesFrom(_, _)
SlicesFrom(avg, h) ==
    IF h >= bins[1] THEN <<>>
    ELSE SliceLines(avg, h) \o SlicesFrom(avg, h + 1)

\* lines 294-298: the shape header, then every slice
SaveHsv(avg) == <<CommentLine>> \o SlicesFrom(avg, 0)

\* the rows np.loadtxt parses: comment lines are skipped
IsData(line) == ~line.comment
DataRows(lines) == SelectSeq(lines, IsData)

\* lines 320, 324-326, 369, 372-374: np.loadtxt(path, dtype=np.float32) of a file
\* of one-value rows gives a 1-D array
LoadFlat(lines) ==
    LET rows == DataRows(lines)
    IN [b \in 0..(Len(rows) - 1) |-> rows[b + 1].row[1]]

\* lines 329-331 and 431-432: np.loadtxt(path).reshape((8, 12, 3)); the rows are
\* laid out row by row and cut into hue, saturation, value
LoadHsv_SwappedAxes(lines) ==
    LET rows == DataRows(lines)
        flat(n) == rows[(n \div bins[3]) + 1].row[(n % bins[3]) + 1]
    IN [b \in HsvBins |-> flat((b[2] * bins[1] + b[1]) * bins[3] + b[3])]

LoadHsv(lines) ==
    LET rows == DataRows(lines)
        flat(n) == rows[(n \div bins[3]) + 1].row[(n % bins[3]) + 1]
    IN [b \in HsvBins |-> flat((b[1] * bins[2] + b[2]) * bins[3] + b[3])]

\* the lists of one to n elements of S
Lists(S, n) == UNION {[1..k -> S] : k \in 1..n}

\* the averaged histogram of some video is ready to be written
InitStore ==
    /\ pc = "store_save"
    /\ error = "none"
    /\ opened = TRUE
    /\ released = FALSE
    /\ total_frames = <<0, 1>>
    /\ fps = <<0, 1>>
    /\ frames_to_process = <<>>
    /\ frame_counter = 0
    /\ ShotIdle
    /\ pass_model = "none"
    /\ histograms_gray_dict = <<>>
    /\ histograms_rgb_dict = [c \in {"b", "g", "r"} |-> <<>>]
    /\ histograms_hsv_dict = <<>>
    /\ NoMatch
    /\ store_col \in HistFiles
    /\ IF store_col = "hsv"
       THEN \E hists \in Lists(FrameHists(HsvBins), MaxStoreFrames) :
               hist_file = [f \in HistFiles |->
                               IF f = store_col THEN AverageHsv(hists).avg ELSE <<>>]
       ELSE \E hists \in Lists(FrameHists(Bins), MaxStoreFrames) :
               hist_file = [f \in HistFiles |->
                               IF f = store_col THEN AverageFlat(hists).avg ELSE <<>>]
    /\ file_text = [f \in HistFiles |-> <<>>]
    /\ hist_loaded = <<>>
    /\ BuildIdle
    /\ VotesIdle

\* lines 223-225, 257-259, 292-298: the array is written to hist-<col>
StoreSave ==
    /\ pc = "store_save"
    /\ file_text' = [file_text EXCEPT ![store_col] =
                        IF store_col = "hsv"
                        THEN SaveHsv(hist_file[store_col])
                        ELSE SaveFlat(hist_file[store_col])]
    /\ pc' = "store_saved"
    /\ UNCHANGED <<votesVars, buildVars, error, captureVars, frames_to_process, frame_counter, shotVars, passVars,
                   matchVars, store_col, hist_loaded>>

\* lines 318-332, 369-374, 431-432: the file is read back
StoreLoad ==
    /\ pc = "store_saved"
    /\ hist_loaded' = IF store_col = "hsv"
                      THEN LoadHsv(file_text[store_col])
                      ELSE LoadFlat(file_text[store_col])
    /\ pc' = "store_loaded"
    /\ UNCHANGED <<votesVars, buildVars, error, captureVars, frames_to_process, frame_counter, shotVars, passVars,
                   matchVars, store_col, file_text>>

NextStore == StoreSave \/ StoreLoad

SpecStore == InitStore /\ [][NextStore]_vars

(***************************************************************************)
(* Histogram builder: cv2.calcHist followed by cv2.normalize               *)
(*                                                                         *)
(* A frame (or region of interest) is the sequence of its pixels, each     *)
(* given by the bin it falls into.  cv2.normalize(h, h) is called with its *)
(* defaults, norm_type = NORM_L2 and alpha = 1: every bin is divided by    *)
(* the Euclidean norm of the histogram.  A normalized bin is the pair      *)
(* <<a, n>> standing for a / sqrt(n).                                      *)
(***************************************************************************)
MaxPixels == 2             \* pixels of a frame or region

BinsOf(col) == IF col = "hsv" THEN HsvBins ELSE Bins

Frames(S) == UNION {[1..k -> S] : k \in 1..MaxPixels}

\* lines 83-85, 130-133, 183-186, 497-498: the number of pixels in each bin
calcHist(frame, S) ==
    [b \in S |-> Cardinality({p \in DOMAIN frame : frame[p] = b})]

RECURSIVE SumOver(_, _)
SumOver(f, S) ==
    IF S = {} THEN 0
    ELSE LET b == CHOOSE x \in S : TRUE
         IN f[b] + SumOver(f, S \ {b})

SumSq(h) == SumOver([b \in DOMAIN h |-> h[b] * h[b]], DOMAIN h)

normalize_L1(h) ==
    LET s == SumOver(h, DOMAIN h)
    IN [b \in DOMAIN h |-> <<h[b], s * s>>]

\* lines 86, 134, 187, 501-502: cv2.normalize(h, h), NORM_L2 with alpha = 1
normalize(h) ==
    LET n == SumSq(h)
    IN [b \in DOMAIN h |-> <<h[b], n>>]

InitBuild ==
    /\ pc = "build"
    /\ error = "none"
    /\ opened = TRUE
    /\ released = FALSE
    /\ total_frames = <<0, 1>>
    /\ fps = <<0, 1>>
    /\ frames_to_process = <<>>
    /\ frame_counter = 0
    /\ ShotIdle
    /\ pass_model = "none"
    /\ PassIdle
    /\ NoMatch
    /\ StoreIdle
    /\ build_col \in HistFiles
    /\ hist_cur = <<>>
    /\ VotesIdle

\* lines 78-87, 125-135, 178-188: one non-empty frame or region is turned
\* into a normalized histogram
BuildHistogram ==
    /\ pc = "build"
    /\ \E frame \in Frames(BinsOf(build_col)) :
          LET histogram == calcHist(frame, BinsOf(build_col))
          IN hist_cur' = normalize(histogram)
    /\ UNCHANGED <<votesVars, storeVars, pc, error, captureVars, frames_to_process, frame_counter,
                   shotVars, passVars, matchVars, build_col>>

NextBuild == BuildHistogram

SpecBuild == InitBuild /\ [][NextBuild]_vars

(***************************************************************************)
(* The vote list: results_array is an attribute of the class, created once *)
(* at line 26.  self.results_array is the instance's own attribute when    *)
(* the instance has one and the attribute of the class otherwise.          *)
(* own_results[i] is <<>> when instance i has no attribute of its own and  *)
(* <<list>> when it has.                                                   *)
(***************************************************************************)
MaxInstances == 2          \* HistogramGenerator instances created
MaxVoteRuns == 2           \* metric runs that cast votes

init_results_array_PerInstance(self) == << <<>> >>

\* lines 28-51: __init__ assigns no results_array to the instance
init_results_array(self) == <<>>

HasOwn(self) == Len(own_results[self]) = 1

\* lines 399-405 and 457-459: the number of copies a metric run appends
RunVotes(config, cur) ==
    IF UsesCompareHist(config, cur) THEN VoteWeight(cur)
    ELSE histogram_comparison_weigths["hsv"]

RunWeights == {RunVotes(config, cur) : config \in ConfigModels, cur \in ConfigModels}

\* the winners a metric run can declare over a corpus of up to MaxVideos videos
Winners == {FileNames[k] : k \in 1..MaxVideos}

InitVotes ==
    /\ pc = "votes"
    /\ error = "none"
    /\ opened = TRUE
    /\ released = FALSE
    /\ total_frames = <<0, 1>>
    /\ fps = <<0, 1>>
    /\ frames_to_process = <<>>
    /\ frame_counter = 0
    /\ ShotIdle
    /\ pass_model = "none"
    /\ PassIdle
    /\ NoMatch
    /\ StoreIdle
    /\ BuildIdle
    /\ instances = {}
    /\ own_results = <<>>
    /\ vote_runs = 0
    /\ voter = 0
    /\ returned = [self |-> 0, list |-> "none"]

\* lines 28-51: HistogramGenerator(directory, file_name)
NewInstance ==
    /\ pc = "votes"
    /\ Cardinality(instances) < MaxInstances
    /\ LET self == Cardinality(instances) + 1
       IN /\ instances' = instances \cup {self}
          /\ own_results' = [i \in instances \cup {self} |->
                                IF i = self THEN init_results_array(self)
                                ELSE own_results[i]]
    /\ UNCHANGED <<buildVars, storeVars, pc, error, captureVars, frames_to_process,
                   frame_counter, shotVars, passVars, matchVars, vote_runs, voter, returned>>

\* lines 399-405 and 457-459: a metric run of self.match_histograms ends and
\* appends its votes to self.results_array
VotesEndRun ==
    /\ pc = "votes"
    /\ vote_runs < MaxVoteRuns
    /\ \E self \in instances, weight \in RunWeights, winner \in Winners :
          /\ IF HasOwn(self)
             THEN /\ own_results' =
                        [own_results EXCEPT ![self] = <<@[1] \o Copies(weight, winner)>>]
                  /\ UNCHANGED results_array
             ELSE /\ results_array' = results_array \o Copies(weight, winner)
                  /\ UNCHANGED own_results
          /\ voter' = self
    /\ vote_runs' = vote_runs + 1
    /\ UNCHANGED <<buildVars, storeVars, pc, error, captureVars, frames_to_process,
                   frame_counter, shotVars, passVars, config_model, cur_all_model, corpus,
                   hist_recording, m_idx, method, corpus_i, comparisons, table_data,
                   csv_files, video_match, video_match_value, instances, returned>>

\* lines 567-572: get_results_array returns the list itself, not a copy
GetResultsArray ==
    /\ pc = "votes"
    /\ \E self \in instances :
          returned' = [self |-> self, list |-> IF HasOwn(self) THEN "own" ELSE "class"]
    /\ UNCHANGED <<buildVars, storeVars, pc, error, captureVars, frames_to_process,
                   frame_counter, shotVars, passVars, matchVars, instances, own_results,
                   vote_runs, voter>>

NextVotes == NewInstance \/ VotesEndRun \/ GetResultsArray

SpecVotes == InitVotes /\ [][NextVotes]_vars

(***************************************************************************)
(* Properties of the frame sampler                                         *)
(***************************************************************************)
AtLeastOne(q) == q[1] >= q[2]

\* C6: for every frame count T >= 1 and frame rate F >= 1 the sampler returns
\* exactly 1, 1+ceil(F), 1+2*ceil(F), ... up to the last such index <= T: the
\* list is non-empty, starts at 1, is strictly increasing and ends at or below T.
C6_SamplerSequence ==
    (pc # "sampler" /\ AtLeastOne(total_frames) /\ AtLeastOne(fps)) =>
        LET s == frames_to_process
            c == Ceil(fps)
        IN /\ pc = "sampled"
           /\ Len(s) >= 1
           /\ s[1] = 1
           /\ \A k \in 1..Len(s) : s[k] = 1 + (k - 1) * c
           /\ \A k \in 1..(Len(s) - 1) : s[k] < s[k + 1]
           /\ s[Len(s)] * total_frames[2] <= total_frames[1]
           /\ (s[Len(s)] + c) * total_frames[2] > total_frames[1]

C6_Witness ==
    /\ pc = "sampled"
    /\ total_frames = <<6, 1>>
    /\ fps = <<3, 2>>
    /\ frames_to_process = <<1, 3, 5>>

\* C9: for every zero or negative frame rate (and frame count T >= 1) the
\* sampler fails with an error and returns no index list.
C9_InvalidRateIsFatal ==
    (pc # "sampler" /\ fps[1] <= 0 /\ AtLeastOne(total_frames)) => pc = "error"

(***************************************************************************)
(* Properties of the shot boundary detector                                *)
(***************************************************************************)
\* C1: the detector starts in BELOW; a pair with d > 10 in BELOW emits one event
\* carrying the current frame index and moves to ABOVE; a pair with d < 10 in
\* ABOVE moves to BELOW without an event; every other pair changes nothing.
C1_DetectorSteps ==
    /\ (pc = "shot_start" => is_under_threshold)
    /\ [][ /\ frame_counter' = frame_counter + 1 =>
                LET d == y_axis'[frame_counter']
                IN /\ Len(y_axis') = frame_counter'
                   /\ CASE is_under_threshold /\ d > threshold ->
                             /\ ~is_under_threshold'
                             /\ events' = Append(events, frame_counter')
                        [] ~is_under_threshold /\ d < threshold ->
                             /\ is_under_threshold'
                             /\ events' = events
                        [] OTHER ->
                             /\ is_under_threshold' = is_under_threshold
                             /\ events' = events
           /\ frame_counter' = frame_counter =>
                UNCHANGED <<is_under_threshold, events>> ]_vars

C1_Witness ==
    /\ pc = "shot_loop"
    /\ y_axis = <<15, 10, 20, 3, 10>>
    /\ events = <<1>>
    /\ is_under_threshold

\* C2: between two consecutive events there is a frame pair whose divergence is
\* strictly below the threshold, and the sequence [2, 15, 20, 3, 16] emits
\* exactly the events 2 and 5.
C2_Hysteresis ==
    /\ \A k \in 1..(Len(events) - 1) :
          \E j \in (events[k] + 1)..(events[k + 1] - 1) : y_axis[j] < threshold
    /\ y_axis = <<2, 15, 20, 3, 16>> => events = <<2, 5>>

C2_Witness ==
    /\ y_axis = <<2, 15, 20, 3, 16>>
    /\ events = <<2, 5>>
    /\ ~is_under_threshold

(***************************************************************************)
(* Properties of the fingerprinting passes                                 *)
(***************************************************************************)
FracEq(a, b) == a[1] * b[2] = b[1] * a[2]

\* the array has exactly the bins S, each the mean of that bin over hists
IsBinwiseMean(arr, hists, S) ==
    /\ DOMAIN arr = S
    /\ \A i \in S : FracEq(arr[i], <<BinSum(hists, i), Len(hists)>>)

\* C7: the stored fingerprint has the shape of the per-frame histograms (every
\* bin of the flat gray, b, g, r histograms, every bin of the HSV grid) and each
\* of its bins is the sum of that bin over the sampled frames divided by their number.
C7_FingerprintIsBinwiseMean ==
    pc \in {"pass_release", "done"} =>
        /\ pass_model = "gray" =>
              IsBinwiseMean(hist_file["gray"], histograms_gray_dict, Bins)
        /\ pass_model = "rgb" =>
              \A c \in {"b", "g", "r"} :
                  IsBinwiseMean(hist_file[c], histograms_rgb_dict[c], Bins)
        /\ pass_model = "hsv" =>
              IsBinwiseMean(hist_file["hsv"], histograms_hsv_dict, HsvBins)

\* C8: a pass that collected no histogram is stopped before the averaging step:
\* the aggregator is never entered with an empty list and never divides by zero.
C8_EmptyPassDetected ==
    /\ pc = "pass_aggregate" => NumHists > 0
    /\ error # "ZeroDivisionError"

\* C10: a pass whose frame loop has ended does not terminate with the capture
\* still open, whether the loop ended by a failed read or by the exit key.
C10_CaptureReleased ==
    (pc = "done" \/ (pc = "error" /\ error = "ZeroDivisionError")) => released

(***************************************************************************)
(* Properties of the comparison engine                                     *)
(***************************************************************************)
\* the running metric maximizes: Correlation and Intersection of compareHist
Maximizes ==
    /\ pc = "match_corpus"
    /\ histcmp_methods[m_idx] \in {HISTCMP_CORREL, HISTCMP_INTERSECT}

InMetricRun == pc \in {"match_corpus", "match_corpus3d"}

\* score a is at least as good as score b under the running metric's polarity
AsGoodAs(a, b) == IF Maximizes THEN a >= b ELSE a <= b
Better(a, b) == IF Maximizes THEN a > b ELSE a < b

\* position in the corpus of the running best video
MatchIndex == CHOOSE k \in 1..Len(corpus) : corpus[k] = video_match

\* C3: when a metric run has scored a non-empty corpus, the declared winner has
\* the maximum score for Correlation and Intersection and the minimum score for
\* the four other compareHist metrics and for both HSV distances.
C3_WinnerPolarity ==
    (InMetricRun /\ corpus_i = Len(corpus) /\ Len(corpus) >= 1) =>
        /\ \E k \in 1..Len(corpus) : corpus[k] = video_match
        /\ comparisons[MatchIndex] = video_match_value
        /\ \A k \in 1..Len(corpus) :
              IF Maximizes
              THEN comparisons[k] <= video_match_value
              ELSE comparisons[k] >= video_match_value

C3_Witness ==
    /\ pc = "match_corpus"
    /\ histcmp_methods[m_idx] = HISTCMP_CHISQR
    /\ corpus_i = Len(corpus)
    /\ comparisons = <<3, 0>>
    /\ video_match = "b.mp4"
    /\ video_match_value = 0

\* C4: in every metric run the running best is the first corpus entry after the
\* first comparison, whatever the previous run's winner was, and changes only to
\* a later entry whose score is strictly better under the metric's polarity; so
\* the running best is always the first of the entries with the best score so far.
C4_FirstSeenWinsTies ==
    /\ [](InMetricRun /\ corpus_i >= 1 =>
            /\ \A k \in 1..corpus_i : AsGoodAs(video_match_value, comparisons[k])
            /\ \E k \in 1..corpus_i :
                  /\ corpus[k] = video_match
                  /\ comparisons[k] = video_match_value
                  /\ \A j \in 1..(k - 1) : comparisons[j] # video_match_value)
    /\ [][ /\ (InMetricRun /\ corpus_i = 0 /\ corpus_i' = 1) =>
                /\ video_match' = corpus[1]
                /\ video_match_value' = comparisons'[1]
           /\ (InMetricRun /\ corpus_i >= 1 /\ video_match' # video_match) =>
                /\ corpus_i' = corpus_i + 1
                /\ video_match' = corpus[corpus_i']
                /\ video_match_value' = comparisons'[corpus_i']
                /\ Better(video_match_value', video_match_value) ]_vars

C4_Witness ==
    /\ pc = "match_corpus"
    /\ histcmp_methods[m_idx] = HISTCMP_CHISQR
    /\ results_array # <<>>
    /\ results_array[Len(results_array)] = "b.mp4"
    /\ comparisons = <<3, 3>>
    /\ video_match = "a.mp4"

\* the color model whose fingerprints the running metric compares
RunModel ==
    IF pc = "match_corpus3d" THEN "hsv" ELSE ComparedModel(config_model, cur_all_model)

\* match_histograms is called as the model selection intends: with the default
\* argument for a model chosen by config.model, with the sub-pass model under all
IntendedCall ==
    \/ config_model \in {"gray", "rgb", "hsv"} /\ cur_all_model = "all"
    \/ config_model = "all" /\ cur_all_model \in {"gray", "rgb", "hsv"}

\* C5: every metric run appends to the result list exactly weight-many copies of
\* its winner, the weight being that of the color model compared (1 gray, 5 rgb,
\* 8 hsv), whether the model was chosen by config.model or as a sub-pass of all.
C5_VotesPerRun ==
    [][ (InMetricRun /\ IntendedCall /\ Len(corpus) >= 1 /\ m_idx' = m_idx + 1) =>
            results_array' =
                results_array \o Copies(histogram_comparison_weigths[RunModel], video_match)
      ]_vars

\* the color model whose query fingerprint match_histograms has loaded
LoadedModel ==
    IF hist_recording = {"gray"} THEN "gray"
    ELSE IF hist_recording = {"b", "g", "r"} THEN "rgb"
    ELSE IF hist_recording = {"hsv"} THEN "hsv"
    ELSE "none"

WeightOf(model) ==
    IF model \in DOMAIN histogram_comparison_weigths
    THEN histogram_comparison_weigths[model]
    ELSE 0

\* C13: for every config.model and cur_all_model, match_histograms loads the
\* query fingerprint of one concrete color model; every metric run compares
\* that model's fingerprints (under all with a concrete cur_all_model, the
\* model cur_all_model names) and votes with that model's weight; the call
\* runs the model's complete metric set, 6 metrics for gray and rgb and 2 for
\* hsv, and never uses a query fingerprint that was not loaded.
C13_ModelConsistency ==
    /\ [](pc # "match_start" => LoadedModel # "none")
    /\ [](InMetricRun =>
            /\ RunModel = LoadedModel
            /\ (config_model = "all" /\ cur_all_model # "all") => RunModel = cur_all_model)
    /\ [](error # "KeyError")
    /\ [](pc = "done" => m_idx = 1 + (IF LoadedModel = "hsv" THEN 2 ELSE 6))
    /\ [][ (InMetricRun /\ m_idx' = m_idx + 1) =>
              results_array' =
                  results_array \o Copies(WeightOf(LoadedModel), video_match) ]_vars

\* the name of the metric an OpenCV HistCompMethods value selects
MetricName(m) ==
    IF m = HISTCMP_CORREL THEN "CORRELATION"
    ELSE IF m = HISTCMP_CHISQR THEN "CHI SQUARE"
    ELSE IF m = HISTCMP_INTERSECT THEN "INTERSECTION"
    ELSE IF m = HISTCMP_BHATTACHARYYA THEN "BHATTACHARYYA"
    ELSE IF m = HISTCMP_CHISQR_ALT THEN "ALTERNATIVE CHI-SQUARE"
    ELSE "KULLBACK-LEIBLER DIVERGENCE"

\* the metrics for which a larger score is a better match
MaximizedNames == {"CORRELATION", "INTERSECTION"}

\* C14: in each of the six compareHist runs the label of the run, used in the
\* result file name, the table and the winner report, is the name of the metric
\* compareHist was given for the scores, and the running best changes only to a
\* score that is better under the polarity of the metric the label names
\* (larger for CORRELATION and INTERSECTION, smaller for the four others); a
\* complete gray or rgb pass has written six distinct result files.
C14_LabelNamesMetric ==
    /\ [](pc = "match_corpus" /\ corpus_i >= 1 =>
            /\ method = MetricName(histcmp_methods[m_idx])
            /\ CsvName(config_model, cur_all_model,
                       MetricName(histcmp_methods[m_idx])) \in csv_files)
    /\ [][ (pc = "match_corpus" /\ corpus_i >= 1 /\ video_match' # video_match) =>
              IF method \in MaximizedNames
              THEN video_match_value' > video_match_value
              ELSE video_match_value' < video_match_value ]_vars
    /\ [](pc = "done" /\ UsesCompareHist(config_model, cur_all_model) =>
            Cardinality(csv_files) = Len(histcmp_methods))

(***************************************************************************)
(* Properties of the fingerprint store                                     *)
(***************************************************************************)
\* |x| <= y
AbsAtMost(x, y) == x <= y /\ -x <= y

\* C11: an HSV fingerprint written as header, slices and separators and read
\* back by reshaping the data rows has the same value at every (h, s, v); every
\* value of a flat gray, b, g or r fingerprint is read back at the same bin
\* index, within the 1e-6 precision of the text.
C11_StoreRoundTrip ==
    pc = "store_loaded" =>
        IF store_col = "hsv"
        THEN /\ DOMAIN hist_loaded = HsvBins
             /\ \A b \in HsvBins : FracEq(hist_loaded[b], hist_file["hsv"][b])
        ELSE /\ DOMAIN hist_loaded = DOMAIN hist_file[store_col]
             /\ \A b \in DOMAIN hist_loaded :
                   LET x == hist_file[store_col][b]
                   IN AbsAtMost(hist_loaded[b] * x[2] - x[1] * FmtScale, x[2])

C11_Witness ==
    /\ pc = "store_loaded"
    /\ store_col = "hsv"
    /\ hist_file["hsv"][<<1, 2, 0>>] = <<1, 3>>
    /\ hist_file["hsv"][<<0, 1, 1>>] = <<2, 3>>
    /\ hist_loaded[<<1, 2, 0>>] = <<1, 3>>
    /\ Len(file_text["hsv"]) = 1 + bins[1] * (bins[2] + 1)

(***************************************************************************)
(* Properties of the histogram builder                                     *)
(***************************************************************************)
BinSumOf(h) == SumOver([b \in DOMAIN h |-> h[b][1]], DOMAIN h)

NormSqOf(h) == h[CHOOSE b \in DOMAIN h : TRUE][2]

SameBinSum(h1, h2) ==
    BinSumOf(h1) * BinSumOf(h1) * NormSqOf(h2) = BinSumOf(h2) * BinSumOf(h2) * NormSqOf(h1)

\* C12 (as stated): every emitted histogram has only non-negative bins and
\* the bins of a histogram add up to the same constant as the bins of the
\* histogram emitted before it, whatever the two frames contain.  With bins
\* a / sqrt(n) two sums are equal exactly when their squares are.
C12_ConstantBinSum ==
    [][/\ hist_cur' # <<>> => \A b \in DOMAIN hist_cur' : hist_cur'[b][1] >= 0
       /\ (hist_cur # <<>> /\ hist_cur' # <<>>) => SameBinSum(hist_cur, hist_cur')]_vars

\* C12 (amended): every emitted histogram has only non-negative bins and
\* the squares of its bins add up to 1 (unit Euclidean norm), whatever the
\* non-empty frame contains.
C12_UnitEuclideanNorm ==
    hist_cur # <<>> =>
        /\ DOMAIN hist_cur = BinsOf(build_col)
        /\ \A b \in DOMAIN hist_cur :
              /\ hist_cur[b][1] >= 0
              /\ hist_cur[b][2] = NormSqOf(hist_cur)
        /\ NormSqOf(hist_cur) > 0
        /\ SumOver([b \in DOMAIN hist_cur |-> hist_cur[b][1] * hist_cur[b][1]],
                   DOMAIN hist_cur) = NormSqOf(hist_cur)

\* a frame of two colours was turned into a histogram
C12_Witness ==
    /\ build_col = "hsv"
    /\ hist_cur # <<>>
    /\ hist_cur[<<0, 0, 0>>] = <<1, 2>>
    /\ hist_cur[<<1, 2, 1>>] = <<1, 2>>

(***************************************************************************)
(* Properties of the vote list                                             *)
(***************************************************************************)
IsPrefix(s, t) == Len(s) <= Len(t) /\ SubSeq(t, 1, Len(s)) = s

\* the list get_results_array gives instance self
SeenBy(self) == IF HasOwn(self) THEN own_results[self][1] ELSE results_array

\* the same list after the step
SeenByNext(self) == IF HasOwn(self)' THEN own_results'[self][1] ELSE results_array'

\* C15: the vote list is one list shared by all instances and append-only:
\* every instance sees the same list, get_results_array returns that list,
\* and a creation, a metric run or a read keeps every entry at its position,
\* for the instance that voted, for every other and for one created later.
C15_SharedAppendOnly ==
    /\ [](\A i \in instances : SeenBy(i) = results_array)
    /\ [](returned.list \in {"none", "class"})
    /\ [][ /\ IsPrefix(results_array, results_array')
           /\ \A i \in instances' : IsPrefix(results_array, SeenByNext(i)) ]_vars

\* the first instance voted for a.mp4 as rgb and b.mp4 as hsv, and the second
\* instance then read the list
C15_Witness ==
    /\ instances = {1, 2}
    /\ voter = 1
    /\ results_array = Copies(histogram_comparison_weigths["rgb"], "a.mp4")
                          \o Copies(histogram_comparison_weigths["hsv"], "b.mp4")
    /\ returned = [self |-> 2, list |-> "class"]

====
